---- MODULE Spec2Model ----
(***************************************************************************)
(* Model of scripts/validation/validation-loop.py: the ValidationLoop      *)
(* retry wrapper (execute, _analyze_failure, _generate_fix_suggestions,    *)
(* _detect_gaming_in_retry, get_summary), and of                           *)
(* scripts/validation/auto-discovery.py: AutoDiscovery.discover_all.       *)
(*                                                                         *)
(* Modelling conventions                                                   *)
(*  - A Python str is a sequence of words; " ".join(xs) is concatenation   *)
(*    of the word sequences and `needle in text` is a contiguous           *)
(*    sub-sequence match.  Words are already case-folded (.lower()).       *)
(*  - A Python float is the record [k, m] standing for the real number     *)
(*    k/10 + m * 2^-56 / 10: k is the nominal number of tenths and m the   *)
(*    binary representation error.  FAdd rounds to nearest-even exactly as *)
(*    IEEE-754 double addition does for values below 4.0.                  *)
(*  - ValidationResult.message and .duration (wall-clock) are not part of  *)
(*    the state: no modelled operation reads them.                         *)
(*  - An attempt that raises does so with an instance of Exception, the    *)
(*    class the handler in execute catches.                                *)
(*  - A project directory is the set of its files and directories, the     *)
(*    dependency names in package.json and the section names in            *)
(*    pyproject.toml.                                                      *)
(***************************************************************************)
EXTENDS Integers, Sequences, FiniteSets

VARIABLES
    max_retries,              \* self.config.max_retries
    enable_gaming_detection,  \* self.config.enable_gaming_detection
    history,                  \* self.history
    gaming_score,             \* self.gaming_score (float)
    pc,                       \* position of the caller: idle / loop / returned / raised
    attempt,                  \* loop variable of execute
    result,                   \* value returned by the last execute call
    outcomes,                 \* what task_func/validation_func did, per attempt of this call
    task_calls,               \* invocations of task_func in this call
    start_len,                \* len(self.history) when this call began
    emitted,                  \* gaming-detection lines printed during the last attempt
    detect_ran,               \* _detect_gaming_in_retry was called in the last attempt
    calls,                    \* execute calls made on this loop
    kinds,                    \* what happened in the attempt behind each history record
    summary,                  \* what get_summary last returned to the caller
    an_pc,                    \* pure-function harness for _analyze_failure
    an_in1, an_in2,
    an_out1, an_out2,
    project,                  \* the project directory AutoDiscovery looks at
    discovered_tools,         \* self.discovered_tools
    project_info,             \* self.project_info
    returned,                 \* what each discover_all call returned, in order
    saved_config              \* content of .pai/validation-config.json

vars == <<max_retries, enable_gaming_detection, history, gaming_score, pc, attempt,
          result, outcomes, task_calls, start_len, emitted, detect_ran, calls,
          kinds, summary,
          an_pc, an_in1, an_in2, an_out1, an_out2,
          project, discovered_tools, project_info, returned, saved_config>>

loopVars == <<max_retries, enable_gaming_detection, history, gaming_score, pc, attempt,
              result, outcomes, task_calls, start_len, emitted, detect_ran, calls,
              kinds, summary>>

anVars == <<an_pc, an_in1, an_in2, an_out1, an_out2>>

discVars == <<project, discovered_tools, project_info, returned, saved_config>>

(***************************************************************************)
(* Bounds                                                                  *)
(***************************************************************************)
MaxRetriesBound == 4
MaxCalls == 2
MaxHistory == 4
MaxErrLen == 2
MaxDiscoverCalls == 2

(***************************************************************************)
(* ValidationProtocol                                                      *)
(***************************************************************************)
None == "None"

ValidationProtocol ==
    {"NLNH", "DGTS", "ZeroTolerance", "DocumentationDrivenTDD", "AntiHall", "E2E"}

OptionalProtocol == ValidationProtocol \cup {None}

(***************************************************************************)
(* Strings                                                                 *)
(***************************************************************************)
Last(s) == s[Len(s)]

RECURSIVE Join(_)
Join(xs) == IF xs = <<>> THEN <<>> ELSE Head(xs) \o Join(Tail(xs))

Contains(text, needle) ==
    \E i \in 1..(Len(text) - Len(needle) + 1) :
        SubSeq(text, i, i + Len(needle) - 1) = needle

(***************************************************************************)
(* Floats                                                                  *)
(***************************************************************************)
F0 == [k |-> 0, m |-> 0]
F01 == [k |-> 1, m |-> 4]
\* Mutant: identical errors weigh 0.4.
F04 == [k |-> 4, m |-> 16]

F02 == [k |-> 2, m |-> 8]
F05 == [k |-> 5, m |-> 0]

Ulp(k, m) ==
    IF k > 20 \/ (k = 20 /\ m >= 0) THEN 320
    ELSE IF k > 10 \/ (k = 10 /\ m >= 0) THEN 160
    ELSE IF k > 5 \/ (k = 5 /\ m >= 0) THEN 80
    ELSE IF k >= 3 THEN 40
    ELSE IF k >= 2 THEN 20
    ELSE IF k >= 1 THEN 10
    ELSE 1

FAdd(x, y) ==
    LET k == x.k + y.k
        m == x.m + y.m
        U == Ulp(k, m)
        R == (256 * k + m) % (2 * U)
        r == R % U
        odd == (R \div U) = 1
    IN  IF r = 0 THEN [k |-> k, m |-> m]
        ELSE IF 2 * r < U \/ (2 * r = U /\ ~odd) THEN [k |-> k, m |-> m - r]
        ELSE [k |-> k, m |-> m + U - r]

FGreater(x, y) == x.k > y.k \/ (x.k = y.k /\ x.m > y.m)

\* round(x, 2) / f"{x:.2f}", in hundredths: the representation error is far
\* below half a hundredth, so the result is the nominal value.
Round2(x) == 10 * x.k

(***************************************************************************)
(* ValidationResult                                                        *)
(***************************************************************************)
ValidationResult(passed, protocol, errors, suggestions, att) ==
    [passed |-> passed, protocol |-> protocol, errors |-> errors,
     suggestions |-> suggestions, attempt |-> att]

NoResult == [passed |-> FALSE, protocol |-> None, errors |-> <<>>,
             suggestions |-> <<>>, attempt |-> 0]

(***************************************************************************)
(* _analyze_failure                                                        *)
(***************************************************************************)
ErrorsStr(res) == Join(res.errors)

AnalyzeZeroTolerance(res) ==
    LET errors_str == ErrorsStr(res)
    IN  IF Contains(errors_str, <<"console.log">>)
            THEN [primary_cause |-> "Console.log statements", severity |-> "High"]
        ELSE IF Contains(errors_str, <<"typescript">>)
                \/ Contains(errors_str, <<"type", "error">>)
            THEN [primary_cause |-> "TypeScript errors", severity |-> "High"]
        ELSE IF Contains(errors_str, <<"eslint">>)
            THEN [primary_cause |-> "ESLint violations", severity |-> "Medium"]
        ELSE [primary_cause |-> "Unknown", severity |-> "Medium"]

\* Mutant: the early return taken for every result.
AnalyzeFailureAlwaysDefault(res) ==
    [protocol |-> IF res.protocol = None THEN "Unknown" ELSE res.protocol,
     error_count |-> Len(res.errors),
     primary_cause |-> "Unknown",
     severity |-> "Medium"]

AnalyzeFailure(res) ==
    LET cause ==
            IF res.protocol = None
                THEN [primary_cause |-> "Unknown", severity |-> "Medium"]
            ELSE IF res.protocol = "NLNH"
                THEN [primary_cause |-> "Truth/confidence violation", severity |-> "High"]
            ELSE IF res.protocol = "DGTS"
                THEN [primary_cause |-> "Gaming pattern detected", severity |-> "Critical"]
            ELSE IF res.protocol = "ZeroTolerance"
                THEN AnalyzeZeroTolerance(res)
            ELSE IF res.protocol = "DocumentationDrivenTDD"
                THEN [primary_cause |-> "Tests don't match documentation", severity |-> "High"]
            ELSE IF res.protocol = "AntiHall"
                THEN [primary_cause |-> "Code doesn't exist in codebase", severity |-> "Critical"]
            ELSE IF res.protocol = "E2E"
                THEN [primary_cause |-> "End-to-end test failures", severity |-> "High"]
            ELSE [primary_cause |-> "Unknown", severity |-> "Medium"]
    IN  [protocol |-> IF res.protocol = None THEN "Unknown" ELSE res.protocol,
         error_count |-> Len(res.errors),
         primary_cause |-> cause.primary_cause,
         severity |-> cause.severity]

(***************************************************************************)
(* _generate_fix_suggestions                                               *)
(***************************************************************************)
ZeroToleranceSuggestions(res) ==
    LET errors_str == ErrorsStr(res)
    IN  (IF Contains(errors_str, <<"console.log">>)
            THEN <<"Replace console.log with proper logging: import { log } from '@/lib/logger'",
                   "Remove all console.* statements (console.log, console.error, console.warn)">>
            ELSE <<>>)
        \o
        (IF Contains(errors_str, <<"typescript">>) \/ Contains(errors_str, <<"type", "error">>)
            THEN <<"Fix TypeScript type errors - run: npx tsc --noEmit",
                   "Add explicit types for all parameters and return values",
                   "Remove 'any' types and use proper typing">>
            ELSE <<>>)
        \o
        (IF Contains(errors_str, <<"eslint">>)
            THEN <<"Run ESLint auto-fix: npx eslint . --fix",
                   "Fix remaining ESLint errors manually">>
            ELSE <<>>)
        \o
        (IF Contains(errors_str, <<"catch">>) \/ Contains(errors_str, <<"error">>)
            THEN <<"Add error parameter to catch blocks: catch (error: unknown)",
                   "Remove void error anti-patterns">>
            ELSE <<>>)

GenerateFixSuggestions(res, analysis) ==
    IF res.protocol = None
        THEN <<"Run full validation to identify specific protocol failure">>
    ELSE IF res.protocol = "NLNH"
        THEN <<"Increase confidence score by citing sources",
               "Replace assumptions with verified facts",
               "Add explicit 'I don't know' statements where uncertain",
               "Remove superlatives and overconfident language">>
    ELSE IF res.protocol = "DGTS"
        THEN <<"Remove mock data returns - implement real functionality",
               "Replace 'assert True' with meaningful assertions",
               "Uncomment validation rules that were disabled",
               "Remove 'if False' disabled code blocks",
               "Implement actual logic instead of TODO/pass stubs">>
    ELSE IF res.protocol = "ZeroTolerance"
        THEN ZeroToleranceSuggestions(res)
    ELSE IF res.protocol = "DocumentationDrivenTDD"
        THEN <<"Create tests from PRD/PRP/ADR documentation first",
               "Map each requirement to a testable acceptance criterion",
               "Implement code to pass documentation-derived tests",
               "Verify test coverage matches all documented requirements">>
    ELSE IF res.protocol = "AntiHall"
        THEN <<"Verify the code/method exists in codebase before referencing",
               "Run: npm run antihall:check '<code snippet>'",
               "Use antihall:find to discover correct naming",
               "Check actual implementation, don't assume it exists">>
    ELSE IF res.protocol = "E2E"
        THEN <<"Review Playwright test failures and screenshots",
               "Fix UI bugs identified in E2E tests",
               "Update selectors if DOM structure changed",
               "Run tests in headed mode for debugging: npx playwright test --headed">>
    ELSE <<>>

ExceptionSuggestions ==
    <<"Check logs for detailed error trace", "Verify task function is correct">>

(***************************************************************************)
(* _detect_gaming_in_retry                                                 *)
(***************************************************************************)
\* Mutant: compares the number of errors, not the errors.
IdenticalErrorsByCount(prev_result, res) == Len(prev_result.errors) = Len(res.errors)

IdenticalErrors(prev_result, res) == prev_result.errors = res.errors

\* Mutant: an untagged previous record is skipped.
ProtocolSwitchedFromTagged(prev_result, res) ==
    prev_result.protocol # None /\ prev_result.protocol # res.protocol

ProtocolSwitched(prev_result, res) == prev_result.protocol # res.protocol

\* Mutant: >= 0.5 instead of > 0.5.
HighGamingScoreInclusive(score) == ~FGreater(F05, score)

HighGamingScore(score) == FGreater(score, F05)

\* Mutant: the attempt's record is appended before detection runs, so the
\* record compared against is the attempt's own.
DetectGamingAfterAppend(hist, score, res) ==
    LET same == IdenticalErrors(res, res)
        switched == ProtocolSwitched(res, res)
        s1 == IF same THEN FAdd(score, F02) ELSE score
        s2 == IF switched THEN FAdd(s1, F01) ELSE s1
    IN  [score |-> s2,
         printed |-> (IF same THEN {"IdenticalErrors"} ELSE {})
                     \cup (IF switched THEN {"ProtocolSwitching"} ELSE {})
                     \cup (IF HighGamingScore(s2) THEN {"HighGamingScore"} ELSE {})]

\* The score and the printed lines after one call, given self.history and
\* self.gaming_score before it.
DetectGamingInRetry(hist, score, res) ==
    LET has_prev == Len(hist) > 0
        same == has_prev /\ IdenticalErrors(Last(hist), res)
        switched == has_prev /\ ProtocolSwitched(Last(hist), res)
        s1 == IF same THEN FAdd(score, F02) ELSE score
        s2 == IF switched THEN FAdd(s1, F01) ELSE s1
    IN  [score |-> s2,
         printed |-> (IF same THEN {"IdenticalErrors"} ELSE {})
                     \cup (IF switched THEN {"ProtocolSwitching"} ELSE {})
                     \cup (IF HighGamingScore(s2) THEN {"HighGamingScore"} ELSE {})]

(***************************************************************************)
(* AutoDiscovery: the project directory and the helper methods             *)
(***************************************************************************)
\* A project directory: the files and directories in it, the packages that
\* package.json lists under dependencies or devDependencies, and the names s
\* for which pyproject.toml contains "[tool.s]" or "[s]".
Project(files, dirs, dependencies, pyproject_sections) ==
    [files |-> files, dirs |-> dirs, dependencies |-> dependencies,
     pyproject_sections |-> pyproject_sections]

EmptyProject == Project({}, {}, {}, {})

FileExists(p, filename) == filename \in p.files

DirExists(p, dirname) == dirname \in p.dirs

HasPackageDependency(p, package) ==
    IF ~FileExists(p, "package.json") THEN FALSE ELSE package \in p.dependencies

HasInPyproject(p, section) ==
    IF ~FileExists(p, "pyproject.toml") THEN FALSE ELSE section \in p.pyproject_sections

\* next((f for f in candidates if self._file_exists(f)), None)
RECURSIVE FirstExisting(_, _)
FirstExisting(p, candidates) ==
    IF candidates = <<>> THEN None
    ELSE IF FileExists(p, Head(candidates)) THEN Head(candidates)
    ELSE FirstExisting(p, Tail(candidates))

DiscoveredTool(name, type, config_file, command) ==
    [name |-> name, type |-> type, config_file |-> config_file, command |-> command,
     enabled |-> TRUE, auto_discovered |-> TRUE]

(***************************************************************************)
(* AutoDiscovery._analyze_project                                          *)
(***************************************************************************)
PackageManager(p, is_python) ==
    IF FileExists(p, "package-lock.json") THEN "npm"
    ELSE IF FileExists(p, "yarn.lock") THEN "yarn"
    ELSE IF FileExists(p, "pnpm-lock.yaml") THEN "pnpm"
    ELSE IF FileExists(p, "bun.lockb") THEN "bun"
    ELSE IF FileExists(p, "poetry.lock") THEN "poetry"
    ELSE IF FileExists(p, "uv.lock") THEN "uv"
    ELSE IF FileExists(p, "Pipfile.lock") THEN "pipenv"
    ELSE IF is_python THEN "pip"
    ELSE None

IsJavascript(p, is_typescript) == FileExists(p, "package.json") /\ ~is_typescript

AnalyzeProject(p) ==
    LET is_typescript == FileExists(p, "tsconfig.json")
        is_python == \/ FileExists(p, "pyproject.toml")
                     \/ FileExists(p, "setup.py")
                     \/ FileExists(p, "requirements.txt")
    IN  [is_typescript |-> is_typescript,
         is_python |-> is_python,
         is_javascript |-> IsJavascript(p, is_typescript),
         is_ui_project |-> \/ DirExists(p, "src/components")
                           \/ DirExists(p, "src/app")
                           \/ DirExists(p, "app")
                           \/ DirExists(p, "pages")
                           \/ DirExists(p, "src/pages"),
         has_tests |-> \/ DirExists(p, "tests")
                       \/ DirExists(p, "test")
                       \/ DirExists(p, "__tests__")
                       \/ FileExists(p, "pytest.ini"),
         package_manager |-> PackageManager(p, is_python)]

(***************************************************************************)
(* AutoDiscovery._discover_*: the tools each step appends, in order        *)
(***************************************************************************)
DiscoverLinters(p) ==
    (IF \/ FileExists(p, ".eslintrc.json")
        \/ FileExists(p, ".eslintrc.js")
        \/ FileExists(p, ".eslintrc.cjs")
        THEN <<DiscoveredTool("ESLint", "linter",
                   FirstExisting(p, <<".eslintrc.json", ".eslintrc.js", ".eslintrc.cjs">>),
                   "npx eslint . --ext .ts,.tsx,.js,.jsx")>>
        ELSE <<>>)
    \o
    (IF FileExists(p, "ruff.toml") \/ HasInPyproject(p, "ruff")
        THEN <<DiscoveredTool("Ruff", "linter",
                   IF FileExists(p, "ruff.toml") THEN "ruff.toml" ELSE "pyproject.toml",
                   "ruff check .")>>
        ELSE <<>>)
    \o
    (IF FileExists(p, ".pylintrc") \/ HasInPyproject(p, "pylint")
        THEN <<DiscoveredTool("Pylint", "linter",
                   IF FileExists(p, ".pylintrc") THEN ".pylintrc" ELSE "pyproject.toml",
                   "pylint **/*.py")>>
        ELSE <<>>)

DiscoverTypeCheckers(p) ==
    (IF FileExists(p, "tsconfig.json")
        THEN <<DiscoveredTool("TypeScript", "type_checker", "tsconfig.json",
                              "npx tsc --noEmit")>>
        ELSE <<>>)
    \o
    (IF FileExists(p, "mypy.ini") \/ HasInPyproject(p, "mypy")
        THEN <<DiscoveredTool("MyPy", "type_checker",
                   IF FileExists(p, "mypy.ini") THEN "mypy.ini" ELSE "pyproject.toml",
                   "mypy .")>>
        ELSE <<>>)

Vitest(p) ==
    DiscoveredTool("Vitest", "test_framework",
        IF FileExists(p, "vitest.config.ts") THEN "vitest.config.ts" ELSE None,
        "npm run test")

Jest(p) ==
    DiscoveredTool("Jest", "test_framework",
        IF FileExists(p, "jest.config.js") THEN "jest.config.js" ELSE None,
        "npm test")

\* Mutant: Jest is looked for even when Vitest was found.
VitestOrJestBoth(p) ==
    (IF HasPackageDependency(p, "vitest") THEN <<Vitest(p)>> ELSE <<>>)
    \o (IF HasPackageDependency(p, "jest") THEN <<Jest(p)>> ELSE <<>>)

\* if vitest ... elif jest ...
VitestOrJest(p) ==
    IF HasPackageDependency(p, "vitest") THEN <<Vitest(p)>>
    ELSE IF HasPackageDependency(p, "jest") THEN <<Jest(p)>>
    ELSE <<>>

DiscoverTestFrameworks(p) ==
    VitestOrJest(p)
    \o
    (IF FileExists(p, "pytest.ini") \/ HasInPyproject(p, "pytest")
        THEN <<DiscoveredTool("Pytest", "test_framework",
                   IF FileExists(p, "pytest.ini") THEN "pytest.ini" ELSE "pyproject.toml",
                   "pytest --cov --cov-report=term-missing")>>
        ELSE <<>>)
    \o
    (IF HasPackageDependency(p, "mocha")
        THEN <<DiscoveredTool("Mocha", "test_framework",
                   IF FileExists(p, ".mocharc.json") THEN ".mocharc.json" ELSE None,
                   "npm test")>>
        ELSE <<>>)

DiscoverFormatters(p) ==
    (IF \/ FileExists(p, ".prettierrc")
        \/ FileExists(p, ".prettierrc.json")
        \/ FileExists(p, "prettier.config.js")
        THEN <<DiscoveredTool("Prettier", "formatter",
                   FirstExisting(p, <<".prettierrc", ".prettierrc.json", "prettier.config.js">>),
                   "npx prettier --check .")>>
        ELSE <<>>)
    \o
    (IF HasInPyproject(p, "black") \/ HasPackageDependency(p, "black")
        THEN <<DiscoveredTool("Black", "formatter", "pyproject.toml", "black --check .")>>
        ELSE <<>>)

DiscoverE2EFrameworks(p) ==
    IF FileExists(p, "playwright.config.ts") \/ FileExists(p, "playwright.config.js")
        THEN <<DiscoveredTool("Playwright", "e2e",
                   IF FileExists(p, "playwright.config.ts")
                       THEN "playwright.config.ts" ELSE "playwright.config.js",
                   "npx playwright test")>>
    ELSE IF FileExists(p, "cypress.config.ts") \/ FileExists(p, "cypress.config.js")
        THEN <<DiscoveredTool("Cypress", "e2e",
                   IF FileExists(p, "cypress.config.ts")
                       THEN "cypress.config.ts" ELSE "cypress.config.js",
                   "npx cypress run")>>
    ELSE <<>>

(***************************************************************************)
(* AutoDiscovery._generate_results                                         *)
(***************************************************************************)
\* [tool.name for tool in tools if tool.type in types]
RECURSIVE NamesOfType(_, _)
NamesOfType(tools, types) ==
    IF tools = <<>> THEN <<>>
    ELSE (IF Head(tools).type \in types THEN <<Head(tools).name>> ELSE <<>>)
         \o NamesOfType(Tail(tools), types)

GenerateResults(info, tools) ==
    [project_info |-> info,
     discovered_tools |-> tools,
     validation_layers |->
         [layer1_static_analysis |-> NamesOfType(tools, {"linter", "type_checker"}),
          layer2_unit_tests |-> NamesOfType(tools, {"test_framework"}),
          layer3_e2e_tests |-> NamesOfType(tools, {"e2e"})]]

\* No configuration has been saved.
NoConfig == [project_info |-> None]

\* AutoDiscovery.__init__, on an empty project.
NoDiscovery ==
    /\ project = EmptyProject
    /\ discovered_tools = <<>>
    /\ project_info = None
    /\ returned = <<>>
    /\ saved_config = NoConfig

(***************************************************************************)
(* Inputs: what task_func and validation_func may do on one attempt        *)
(***************************************************************************)
E1 == <<"console.log">>
E2 == <<"type">>
E3 == <<"error">>

LoopProtocols == {None, "DGTS", "ZeroTolerance"}

LoopErrorLists == {<<E1>>, <<E2, E3>>}

ExceptionMessages == {E1, E3}

SuppliedSuggestions == {<<>>, <<"Suggestion supplied by validation_func">>}

\* The caller holds no summary.
NoSummary == [total_attempts |-> -1]

(***************************************************************************)
(* ValidationLoop.__init__                                                 *)
(***************************************************************************)
InitLoop ==
    /\ max_retries \in 0..MaxRetriesBound
    /\ enable_gaming_detection \in BOOLEAN
    /\ history = <<>>
    /\ gaming_score = F0
    /\ pc = "idle"
    /\ attempt = 0
    /\ result = NoResult
    /\ outcomes = <<>>
    /\ task_calls = 0
    /\ start_len = 0
    /\ emitted = {}
    /\ detect_ran = FALSE
    /\ calls = 0
    /\ kinds = <<>>
    /\ summary = NoSummary

Init ==
    /\ InitLoop
    /\ NoDiscovery
    /\ an_pc = "off"
    /\ an_in1 = NoResult
    /\ an_in2 = NoResult
    /\ an_out1 = AnalyzeFailure(NoResult)
    /\ an_out2 = AnalyzeFailure(NoResult)

(***************************************************************************)
(* ValidationLoop.execute                                                  *)
(***************************************************************************)
\* for attempt in range(1, max_retries + 1)
LoopContinues(att, mr) == att <= mr

\* Mutant: detection starts one attempt late.
ShouldDetectGamingLate(att, enabled) == att > 2 /\ enabled

\* Mutant: the configuration switch is not consulted.
ShouldDetectGamingSwitchIgnored(att, enabled) == att > 1

\* if attempt > 1 and self.config.enable_gaming_detection
ShouldDetectGaming(att, enabled) == att > 1 /\ enabled

\* Mutant: gives up one attempt early.
ShouldRetryEarly(att, mr) == att < mr - 1

\* Mutant: a high gaming score aborts the loop.
ShouldRetryUnlessGaming(att, mr) == att < mr /\ ~HighGamingScore(gaming_score')

\* if attempt < self.config.max_retries (validation failed)
ShouldRetry(att, mr) == att < mr

\* Mutant: an exception in the last but one attempt ends the call.
ExceptionIsLastEarly(att, mr) == att >= mr - 1

\* if attempt >= self.config.max_retries (exception)
ExceptionIsLast(att, mr) == att >= mr

\* Mutant: the history keeps only the latest record.
RecordOverwrite(hist, rec) == <<rec>>

\* self.history.append(result)
Record(hist, rec) == Append(hist, rec)

\* Mutant: the attempt number is recorded zero-based.
PassedRecordZeroBased(protocol, att) == ValidationResult(TRUE, protocol, <<>>, <<>>, att - 1)

\* Mutant: the suggestions validation_func supplied are kept in front.
FailedRecordKeepsSupplied(validation_result, suggestions, att) ==
    ValidationResult(FALSE, validation_result.protocol, validation_result.errors,
                     validation_result.suggestions \o suggestions, att)

\* The record of an attempt that failed validation.
FailedRecord(validation_result, suggestions, att) ==
    ValidationResult(FALSE, validation_result.protocol, validation_result.errors,
                     suggestions, att)

\* The record of a passing attempt.
PassedRecord(protocol, att) == ValidationResult(TRUE, protocol, <<>>, <<>>, att)

\* Mutant: the exception message is not kept.
ExceptionRecordNoErrors(msg, att) ==
    ValidationResult(FALSE, None, <<>>, ExceptionSuggestions, att)

\* The record of an attempt that raised.
ExceptionRecord(msg, att) == ValidationResult(FALSE, None, <<msg>>, ExceptionSuggestions, att)

\* The caller invokes execute on an idle loop, or again after an earlier call.
ExecuteCall ==
    /\ pc \in {"idle", "returned", "raised"}
    /\ calls < MaxCalls
    /\ Len(history) + max_retries <= MaxHistory
    /\ pc' = "loop"
    /\ attempt' = 1
    /\ result' = NoResult
    /\ outcomes' = <<>>
    /\ task_calls' = 0
    /\ start_len' = Len(history)
    /\ emitted' = {}
    /\ detect_ran' = FALSE
    /\ calls' = calls + 1
    /\ summary' = NoSummary
    /\ UNCHANGED <<max_retries, enable_gaming_detection, history, gaming_score, kinds>>

\* One iteration: the task ran and validation_func returned passed = True.
AttemptPass(protocol) ==
    /\ pc = "loop"
    /\ LoopContinues(attempt, max_retries)
    /\ LET rec == PassedRecord(protocol, attempt)
       IN  /\ history' = Record(history, rec)
           /\ result' = rec
    /\ pc' = "returned"
    /\ outcomes' = Append(outcomes, "pass")
    /\ kinds' = Append(kinds, "pass")
    /\ task_calls' = task_calls + 1
    /\ emitted' = {}
    /\ detect_ran' = FALSE
    /\ UNCHANGED <<max_retries, enable_gaming_detection, gaming_score, attempt,
                   start_len, calls, summary>>

\* One iteration: the task ran and validation_func returned passed = False.
AttemptFail(protocol, errors, given) ==
    /\ pc = "loop"
    /\ LoopContinues(attempt, max_retries)
    /\ LET validation_result == ValidationResult(FALSE, protocol, errors, given, 0)
           analysis == AnalyzeFailure(validation_result)
           detect == ShouldDetectGaming(attempt, enable_gaming_detection)
           gaming == IF detect
                        THEN DetectGamingInRetry(history, gaming_score, validation_result)
                        ELSE [score |-> gaming_score, printed |-> {}]
           suggestions == GenerateFixSuggestions(validation_result, analysis)
           rec == FailedRecord(validation_result, suggestions, attempt)
       IN  /\ gaming_score' = gaming.score
           /\ emitted' = gaming.printed
           /\ detect_ran' = detect
           /\ history' = Record(history, rec)
           /\ IF ShouldRetry(attempt, max_retries)
                 THEN /\ attempt' = attempt + 1
                      /\ UNCHANGED <<pc, result>>
                 ELSE /\ pc' = "returned"
                      /\ result' = rec
                      /\ UNCHANGED attempt
    /\ outcomes' = Append(outcomes, "fail")
    /\ kinds' = Append(kinds, "fail")
    /\ task_calls' = task_calls + 1
    /\ UNCHANGED <<max_retries, enable_gaming_detection, start_len, calls, summary>>

\* One iteration: task_func raised, or it returned and validation_func raised
\* (or returned something that is no ValidationResult); str(e) = msg.
AttemptRaise(msg) ==
    /\ pc = "loop"
    /\ LoopContinues(attempt, max_retries)
    /\ LET rec == ExceptionRecord(msg, attempt)
       IN  /\ history' = Record(history, rec)
           /\ IF ExceptionIsLast(attempt, max_retries)
                 THEN /\ pc' = "returned"
                      /\ result' = rec
                      /\ UNCHANGED attempt
                 ELSE /\ attempt' = attempt + 1
                      /\ UNCHANGED <<pc, result>>
    /\ outcomes' = Append(outcomes, "raise")
    /\ kinds' = Append(kinds, "raise")
    /\ task_calls' = task_calls + 1
    /\ emitted' = {}
    /\ detect_ran' = FALSE
    /\ UNCHANGED <<max_retries, enable_gaming_detection, gaming_score, start_len, calls,
                   summary>>

\* The statement after the loop: return self.history[-1] (IndexError on an
\* empty history).
Fallthrough ==
    /\ pc = "loop"
    /\ ~LoopContinues(attempt, max_retries)
    /\ IF Len(history) > 0
          THEN /\ pc' = "returned"
               /\ result' = Last(history)
          ELSE /\ pc' = "raised"
               /\ UNCHANGED result
    /\ UNCHANGED <<max_retries, enable_gaming_detection, history, gaming_score, attempt,
                   outcomes, task_calls, start_len, emitted, detect_ran, calls,
                   kinds, summary>>

(***************************************************************************)
(* ValidationLoop.get_summary (total_duration, a sum of wall-clock times,  *)
(* is left out)                                                            *)
(***************************************************************************)
\* Mutant: PASSED as soon as any record passed.
FinalStatusAnyPassed(hist) ==
    IF \E i \in 1..Len(hist) : hist[i].passed THEN "PASSED" ELSE "FAILED"

\* "PASSED" if self.history and self.history[-1].passed else "FAILED"
FinalStatus(hist) ==
    IF Len(hist) > 0 /\ Last(hist).passed THEN "PASSED" ELSE "FAILED"

GetSummary(hist, score) ==
    LET passed == Cardinality({i \in 1..Len(hist) : hist[i].passed})
        counted == {i \in 1..Len(hist) : ~hist[i].passed /\ hist[i].protocol # None}
    IN  [total_attempts |-> Len(hist),
         passed |-> passed,
         failed |-> Len(hist) - passed,
         gaming_score |-> Round2(score),
         protocols_failed |->
             [proto \in {hist[i].protocol : i \in counted} |->
                 Cardinality({i \in counted : hist[i].protocol = proto})],
         final_status |-> FinalStatus(hist)]

\* The caller asks for the summary between execute calls.
GetSummaryCall ==
    /\ pc \in {"idle", "returned", "raised"}
    /\ summary' = GetSummary(history, gaming_score)
    /\ UNCHANGED <<max_retries, enable_gaming_detection, history, gaming_score, pc, attempt,
                   result, outcomes, task_calls, start_len, emitted, detect_ran, calls,
                   kinds>>

\* One step of a call in progress (the steps of Next other than ExecuteCall).
LoopStep ==
    \/ \E protocol \in LoopProtocols : AttemptPass(protocol)
    \/ \E protocol \in LoopProtocols, errors \in LoopErrorLists,
          given \in SuppliedSuggestions : AttemptFail(protocol, errors, given)
    \/ \E msg \in ExceptionMessages : AttemptRaise(msg)
    \/ Fallthrough

Next ==
    \/ ExecuteCall /\ UNCHANGED <<anVars, discVars>>
    \/ \E protocol \in LoopProtocols : AttemptPass(protocol) /\ UNCHANGED <<anVars, discVars>>
    \/ \E protocol \in LoopProtocols, errors \in LoopErrorLists,
          given \in SuppliedSuggestions :
              AttemptFail(protocol, errors, given) /\ UNCHANGED <<anVars, discVars>>
    \/ \E msg \in ExceptionMessages : AttemptRaise(msg) /\ UNCHANGED <<anVars, discVars>>
    \/ Fallthrough /\ UNCHANGED <<anVars, discVars>>
    \/ GetSummaryCall /\ UNCHANGED <<anVars, discVars>>

Spec == Init /\ [][Next]_vars

\* The interpreter runs the loop body to its end once task_func and
\* validation_func return or raise.
FairSpec == Spec /\ WF_vars(LoopStep /\ UNCHANGED <<anVars, discVars>>)

(***************************************************************************)
(* Harness for the pure function _analyze_failure: two failing results     *)
(* with the same protocol tag are analysed.                                *)
(***************************************************************************)
DefaultMaxRetries == 3

AnalyzeWords == {"console.log", "typescript", "type", "error", "eslint", "catch"}

ErrorStrings == {<<w>> : w \in AnalyzeWords}

AnalyzeErrorLists == UNION {[1..n -> ErrorStrings] : n \in 0..MaxErrLen}

InitAnalyze ==
    /\ InitLoop
    /\ NoDiscovery
    /\ max_retries = DefaultMaxRetries
    /\ enable_gaming_detection = TRUE
    /\ an_pc = "input"
    /\ \E protocol \in OptionalProtocol, e1 \in AnalyzeErrorLists, e2 \in AnalyzeErrorLists :
          /\ an_in1 = ValidationResult(FALSE, protocol, e1, <<>>, 0)
          /\ an_in2 = ValidationResult(FALSE, protocol, e2, <<>>, 0)
    /\ an_out1 = AnalyzeFailure(NoResult)
    /\ an_out2 = AnalyzeFailure(NoResult)

Analyze ==
    /\ an_pc = "input"
    /\ an_out1' = AnalyzeFailure(an_in1)
    /\ an_out2' = AnalyzeFailure(an_in2)
    /\ an_pc' = "done"
    /\ UNCHANGED <<an_in1, an_in2>>
    /\ UNCHANGED <<loopVars, discVars>>

NextAnalyze == Analyze

SpecAnalyze == InitAnalyze /\ [][NextAnalyze]_vars

(***************************************************************************)
(* AutoDiscovery.discover_all, called repeatedly on one instance over      *)
(* every project built from the files, dependencies and sections below     *)
(***************************************************************************)
ProjectFiles == {"tsconfig.json", "package.json", "pyproject.toml",
                 "playwright.config.ts", "playwright.config.js", "cypress.config.ts"}

ProjectDirs == {"tests"}

ProjectDependencies == {"vitest", "jest", "mocha"}

ProjectSections == {"pytest"}

InitDiscovery ==
    /\ InitLoop
    /\ max_retries = DefaultMaxRetries
    /\ enable_gaming_detection = TRUE
    /\ an_pc = "off"
    /\ an_in1 = NoResult
    /\ an_in2 = NoResult
    /\ an_out1 = AnalyzeFailure(NoResult)
    /\ an_out2 = AnalyzeFailure(NoResult)
    /\ \E files \in SUBSET ProjectFiles, dirs \in SUBSET ProjectDirs,
          dependencies \in SUBSET ProjectDependencies,
          pyproject_sections \in SUBSET ProjectSections :
            project = Project(files, dirs, dependencies, pyproject_sections)
    /\ discovered_tools = <<>>
    /\ project_info = None
    /\ returned = <<>>
    /\ saved_config = NoConfig

\* _save_configuration: mkdir .pai, write validation-config.json
SaveConfiguration(p) ==
    [p EXCEPT !.dirs = @ \cup {".pai"},
              !.files = @ \cup {".pai/validation-config.json"}]

DiscoverAll ==
    /\ Len(returned) < MaxDiscoverCalls
    /\ LET info == AnalyzeProject(project)
           tools == discovered_tools
                    \o DiscoverLinters(project)
                    \o DiscoverTypeCheckers(project)
                    \o DiscoverTestFrameworks(project)
                    \o DiscoverFormatters(project)
                    \o DiscoverE2EFrameworks(project)
           results == GenerateResults(info, tools)
       IN  /\ project_info' = info
           /\ discovered_tools' = tools
           /\ saved_config' = results
           /\ project' = SaveConfiguration(project)
           /\ returned' = Append(returned, results)
    /\ UNCHANGED <<loopVars, anVars>>

NextDiscovery == DiscoverAll

SpecDiscovery == InitDiscovery /\ [][NextDiscovery]_vars

(***************************************************************************)
(* Vocabulary of the properties                                            *)
(***************************************************************************)
\* The records appended by the current (or last) execute call.
CallRecords == SubSeq(history, start_len + 1, Len(history))

SomeAttemptPassed == \E i \in 1..Len(outcomes) : outcomes[i] = "pass"

AttemptsExecuted == Len(outcomes)

\* The state right after an attempt of the current call.
AfterAttempt == pc \in {"loop", "returned"} /\ Len(outcomes) > 0

LastOutcome == outcomes[Len(outcomes)]

(***************************************************************************)
(* C1: for max_retries >= 1, execute invokes the task function at most     *)
(* max_retries times, exactly max_retries times when no attempt passed,    *)
(* and every call that entered the loop returns.                           *)
(***************************************************************************)
C1_AttemptsBounded ==
    max_retries >= 1 =>
        /\ task_calls <= max_retries
        /\ (pc = "loop" => task_calls < max_retries /\ attempt = task_calls + 1)
        /\ (pc = "returned" /\ ~SomeAttemptPassed => task_calls = max_retries)

C1_BoundedAttempts ==
    /\ []C1_AttemptsBounded
    /\ ((pc = "loop" /\ max_retries >= 1) ~> (pc = "returned"))

C1_Witness ==
    /\ pc = "returned"
    /\ max_retries >= 3
    /\ task_calls = max_retries
    /\ ~SomeAttemptPassed
    /\ \E i, j \in 1..Len(outcomes) : outcomes[i] = "fail" /\ outcomes[j] = "raise"

(***************************************************************************)
(* C2: a passing attempt ends the call: it is the last attempt executed,   *)
(* the returned result has passed = true and the attempt number of that    *)
(* first pass, and every earlier attempt of the call is recorded failed.   *)
(***************************************************************************)
C2_FirstPassTerminates ==
    \A i \in 1..Len(outcomes) :
        outcomes[i] = "pass" =>
            /\ i = Len(outcomes)
            /\ task_calls = i
            /\ pc = "returned"
            /\ result.passed
            /\ result.attempt = i
            /\ Len(CallRecords) = i
            /\ CallRecords[i] = result
            /\ \A j \in 1..(i - 1) : ~CallRecords[j].passed

C2_Witness ==
    /\ pc = "returned"
    /\ result.passed
    /\ result.attempt = 3
    /\ max_retries > 3
    /\ outcomes = <<"fail", "raise", "pass">>

(***************************************************************************)
(* C3: with max_retries >= 1, when no attempt passed the returned result   *)
(* is the record of attempt max_retries with passed = false (a validation  *)
(* failure or an exception record); the result has passed = true iff some  *)
(* attempt passed.                                                         *)
(***************************************************************************)
C3_ExhaustedReturnsFinal ==
    (pc = "returned" /\ max_retries >= 1) =>
        /\ result.passed <=> SomeAttemptPassed
        /\ ~SomeAttemptPassed =>
              /\ ~result.passed
              /\ result.attempt = max_retries
              /\ result = Last(history)
              /\ AttemptsExecuted = max_retries

C3_Witness ==
    /\ pc = "returned"
    /\ max_retries >= 2
    /\ ~result.passed
    /\ result.attempt = max_retries
    /\ LastOutcome = "raise"

(***************************************************************************)
(* C4: first call on a fresh loop, gaming detection enabled, max_retries   *)
(* >= 4, every attempt so far failed validation with one and the same      *)
(* error list and protocol tag: the reported score after attempt n is      *)
(* 0.2 * (n - 1), i.e. 0, 0.2, 0.4, 0.6, and the high-gaming-score warning *)
(* is printed in attempt n exactly when n >= 4.                            *)
(***************************************************************************)
C4_Scenario ==
    /\ calls = 1
    /\ pc \in {"loop", "returned"}
    /\ enable_gaming_detection
    /\ max_retries >= 4
    /\ \A i \in 1..Len(outcomes) : outcomes[i] = "fail"
    /\ \A i, j \in 1..Len(history) :
          /\ history[i].errors = history[j].errors
          /\ history[i].protocol = history[j].protocol

C4_CrossAttemptScenario ==
    C4_Scenario =>
        LET n == Len(history)
        IN  /\ Round2(gaming_score) = (IF n = 0 THEN 0 ELSE 20 * (n - 1))
            /\ ("HighGamingScore" \in emitted) <=> (n >= 4)

C4_Witness ==
    /\ C4_Scenario
    /\ Len(history) = 4
    /\ Round2(gaming_score) = 60
    /\ "HighGamingScore" \in emitted

(***************************************************************************)
(* C5: in a validation-failed attempt k > 1 with gaming detection enabled, *)
(* the score rises by the 0.2 increment iff the attempt's error list       *)
(* equals the error list recorded for attempt k - 1 of the same call.      *)
(***************************************************************************)
\* The step is a validation-failed attempt in which detection is due.
GamingCheckedStep ==
    /\ pc = "loop"
    /\ attempt > 1
    /\ enable_gaming_detection
    /\ outcomes' = Append(outcomes, "fail")

TenthsAdded == gaming_score'.k - gaming_score.k

C5_IdenticalErrorsAddTwoTenths ==
    [][GamingCheckedStep =>
          /\ Len(history) > start_len
          /\ Last(history).attempt = attempt - 1
          /\ Last(history').attempt = attempt
          /\ (TenthsAdded \in {2, 3}) <=> (Last(history').errors = Last(history).errors)
      ]_vars

C5_Witness ==
    /\ AfterAttempt
    /\ detect_ran
    /\ Len(CallRecords) = 2
    /\ CallRecords[1].errors = CallRecords[2].errors
    /\ CallRecords[1].protocol = CallRecords[2].protocol
    /\ Round2(gaming_score) = 20

(***************************************************************************)
(* C6: in the same attempts the score rises by the 0.1 increment iff the   *)
(* attempt's protocol tag differs from the tag recorded for the previous   *)
(* attempt (an exception record carries no tag); the two increments add    *)
(* up, so one attempt adds 0, 0.1, 0.2 or 0.3.                             *)
(***************************************************************************)
C6_ProtocolSwitchAddsOneTenth ==
    [][GamingCheckedStep =>
          LET same == Last(history').errors = Last(history).errors
              switched == Last(history').protocol # Last(history).protocol
          IN  /\ TenthsAdded \in {0, 1, 2, 3}
              /\ (TenthsAdded \in {1, 3}) <=> switched
              /\ TenthsAdded = (IF same THEN 2 ELSE 0) + (IF switched THEN 1 ELSE 0)
              /\ LastOutcome = "raise" => Last(history).protocol = None
      ]_vars

C6_Witness ==
    /\ AfterAttempt
    /\ detect_ran
    /\ outcomes = <<"raise", "fail">>
    /\ CallRecords[1].protocol = None
    /\ CallRecords[2].protocol # None
    /\ CallRecords[1].errors = CallRecords[2].errors
    /\ Round2(gaming_score) = 30

(***************************************************************************)
(* C7: after every attempt, the high-gaming-score warning was printed in   *)
(* it iff gaming detection ran in it and the score now exceeds 0.5;        *)
(* detection runs exactly in validation-failed attempts k > 1 with         *)
(* detection enabled; a score of 0.5 prints no warning.                    *)
(***************************************************************************)
C7_WarningIffAboveHalf ==
    AfterAttempt =>
        /\ ("HighGamingScore" \in emitted) <=> (detect_ran /\ FGreater(gaming_score, F05))
        /\ detect_ran <=> (/\ LastOutcome = "fail"
                           /\ Last(history).attempt > 1
                           /\ enable_gaming_detection)
        /\ Round2(gaming_score) = 50 => "HighGamingScore" \notin emitted

\* The warning is printed again by an attempt that added nothing.
C7_Witness ==
    /\ AfterAttempt
    /\ detect_ran
    /\ emitted = {"HighGamingScore"}
    /\ Round2(gaming_score) = 60

\* Detection ran and left the score at 0.5: no warning.
C7_WitnessExactHalf ==
    /\ AfterAttempt
    /\ detect_ran
    /\ Round2(gaming_score) = 50
    /\ "HighGamingScore" \notin emitted

(***************************************************************************)
(* C8: the attempts executed and the returned passed flag and attempt      *)
(* number are a function of max_retries and of the pass / fail / raise     *)
(* outcomes alone: the call stops at the first attempt that passes or is   *)
(* number max_retries, whatever the errors, tags, gaming score, warnings   *)
(* or enable_gaming_detection.                                             *)
(***************************************************************************)
StopsAt(i) == outcomes[i] = "pass" \/ i = max_retries

C8_ControlFlowIgnoresGaming ==
    max_retries >= 1 =>
        /\ pc = "loop" => \A i \in 1..Len(outcomes) : ~StopsAt(i)
        /\ pc = "returned" =>
              /\ Len(outcomes) >= 1
              /\ StopsAt(Len(outcomes))
              /\ \A i \in 1..(Len(outcomes) - 1) : ~StopsAt(i)
              /\ result.passed <=> (LastOutcome = "pass")
              /\ result.attempt = Len(outcomes)

\* The warning fired in attempt 3 and attempt 4 still ran.
C8_Witness ==
    /\ pc = "returned"
    /\ outcomes = <<"fail", "fail", "fail", "pass">>
    /\ result.passed
    /\ result.attempt = 4
    /\ FGreater(gaming_score, F05)

(***************************************************************************)
(* C9: _analyze_failure.  As claimed: the (primary_cause, severity) pair   *)
(* is fixed by the protocol tag alone.  As the code has it: that holds for *)
(* every tag but ZeroTolerance, whose pair also depends on the error text. *)
(***************************************************************************)
Pair(analysis) == <<analysis.primary_cause, analysis.severity>>

C9_Table(in, out) ==
    /\ in.protocol = "DGTS" => Pair(out) = <<"Gaming pattern detected", "Critical">>
    /\ in.protocol = "NLNH" => Pair(out) = <<"Truth/confidence violation", "High">>
    /\ in.protocol = None => Pair(out) = <<"Unknown", "Medium">>

\* The claim as stated.
C9_TagAlone ==
    an_pc = "done" =>
        /\ an_in1.protocol = an_in2.protocol => Pair(an_out1) = Pair(an_out2)
        /\ C9_Table(an_in1, an_out1)

\* The claim as amended.
C9_TagAloneExceptZeroTolerance ==
    an_pc = "done" =>
        /\ (an_in1.protocol = an_in2.protocol /\ an_in1.protocol # "ZeroTolerance")
              => Pair(an_out1) = Pair(an_out2)
        /\ C9_Table(an_in1, an_out1)
        /\ C9_Table(an_in2, an_out2)
        /\ an_in1.protocol = "ZeroTolerance" =>
              Pair(an_out1) \in {<<"Console.log statements", "High">>,
                                 <<"TypeScript errors", "High">>,
                                 <<"ESLint violations", "Medium">>,
                                 <<"Unknown", "Medium">>}

C9_Witness ==
    /\ an_pc = "done"
    /\ an_in1.protocol = "DGTS"
    /\ an_in1.errors # an_in2.errors
    /\ Pair(an_out1) = <<"Gaming pattern detected", "Critical">>
    /\ Pair(an_out2) = Pair(an_out1)

(***************************************************************************)
(* C10: history is append-only, one record per attempt executed; during    *)
(* and after the first call on a fresh loop it holds one record per        *)
(* attempt, numbered 1..k in order, only the last may have passed, and the *)
(* returned result is the last record.                                     *)
(***************************************************************************)
C10_Step ==
    /\ Len(history') \in {Len(history), Len(history) + 1}
    /\ SubSeq(history', 1, Len(history)) = history
    /\ (task_calls' = task_calls + 1) <=> (Len(history') = Len(history) + 1)

C10_FirstCall ==
    (calls = 1 /\ pc \in {"loop", "returned"}) =>
        /\ Len(history) = task_calls
        /\ Len(history) = Len(outcomes)
        /\ \A i \in 1..Len(history) : history[i].attempt = i
        /\ \A i \in 1..Len(history) : history[i].passed => i = Len(history)
        /\ \A i \in 1..Len(history) : history[i].passed <=> (outcomes[i] = "pass")
        /\ pc = "returned" => result = Last(history)

C10_HistoryAppendOnly == []C10_FirstCall /\ [][C10_Step]_vars

C10_Witness ==
    /\ calls = 1
    /\ pc = "returned"
    /\ outcomes = <<"raise", "fail", "pass">>
    /\ Len(history) = 3
    /\ history[3].passed
    /\ result = history[3]

(***************************************************************************)
(* C11: get_summary is consistent with the history after any sequence of   *)
(* execute calls: total_attempts is the history length and is passed +     *)
(* failed; the per-protocol failure counts sum to the number of failed     *)
(* records carrying a protocol tag (exception attempts are counted in      *)
(* failed but in no bucket); final_status is PASSED iff the most recent    *)
(* execute call returned passed = true.                                    *)
(***************************************************************************)
RECURSIVE SumOver(_, _)
SumOver(f, S) ==
    IF S = {} THEN 0
    ELSE LET x == CHOOSE y \in S : TRUE IN f[x] + SumOver(f, S \ {x})

\* Attempts, over all calls, that ended the way `kind` says.
AttemptsOfKind(kind) == {i \in 1..Len(kinds) : kinds[i] = kind}

TaggedFailures == {i \in 1..Len(history) : ~history[i].passed /\ history[i].protocol # None}

C11_SummaryConsistent ==
    summary # NoSummary =>
        /\ summary.total_attempts = Len(history)
        /\ summary.total_attempts = summary.passed + summary.failed
        /\ summary.passed = Cardinality(AttemptsOfKind("pass"))
        /\ summary.failed =
              Cardinality(AttemptsOfKind("fail")) + Cardinality(AttemptsOfKind("raise"))
        /\ SumOver(summary.protocols_failed, DOMAIN summary.protocols_failed)
              = Cardinality(TaggedFailures)
        /\ \A i \in AttemptsOfKind("raise") :
              /\ i \notin TaggedFailures
              /\ ~history[i].passed
        /\ \A proto \in DOMAIN summary.protocols_failed :
              /\ proto \in ValidationProtocol
              /\ summary.protocols_failed[proto] =
                    Cardinality({i \in TaggedFailures : history[i].protocol = proto})
        /\ (summary.final_status = "PASSED") <=> (pc = "returned" /\ result.passed)

\* A summary taken after a passed call was followed by a failed one, with
\* an exception attempt and a tagged failure in the history.
C11_Witness ==
    /\ summary # NoSummary
    /\ calls = 2
    /\ pc = "returned"
    /\ ~result.passed
    /\ summary.passed = 1
    /\ summary.failed = 2
    /\ AttemptsOfKind("raise") # {}
    /\ DOMAIN summary.protocols_failed = {"DGTS"}
    /\ summary.final_status = "FAILED"

(***************************************************************************)
(* C12: with max_retries >= 1, an exception (an instance of Exception, as  *)
(* the except clause reads) raised by task_func or validation_func during  *)
(* an attempt never leaves execute: the attempt is recorded as failed,     *)
(* without a protocol tag, with the exception message as its only error;   *)
(* it uses up one attempt; and the loop goes on to the next attempt unless *)
(* that attempt was the last.                                              *)
(***************************************************************************)
RaisedStep == kinds' = Append(kinds, "raise")

C12_Step ==
    RaisedStep =>
        /\ pc = "loop"
        /\ history' = Append(history, Last(history'))
        /\ ~Last(history').passed
        /\ Last(history').protocol = None
        /\ Len(Last(history').errors) = 1
        /\ Last(history').errors[1] \in ExceptionMessages
        /\ Last(history').attempt = attempt
        /\ task_calls' = task_calls + 1
        /\ attempt < max_retries => (pc' = "loop" /\ attempt' = attempt + 1)
        /\ attempt = max_retries => (pc' = "returned" /\ result' = Last(history'))
        /\ pc' # "raised"

C12_NeverPropagates == max_retries >= 1 => pc # "raised"

C12_ExceptionsRecorded == []C12_NeverPropagates /\ [][C12_Step]_vars

\* A call in which every attempt raised, returned with the last record.
C12_Witness ==
    /\ max_retries = 2
    /\ pc = "returned"
    /\ outcomes = <<"raise", "raise">>
    /\ history[Len(history) - 1].errors = <<E1>>
    /\ result.errors = <<E3>>
    /\ result.attempt = 2

(***************************************************************************)
(* C13: the gaming score is never reset: over any sequence of attempts and *)
(* execute calls on one loop it never decreases; a passing attempt, an     *)
(* attempt that raised, and the first attempt of every call leave it       *)
(* unchanged; and it never exceeds 0.3 times the number of                 *)
(* validation-failed attempts with attempt number greater than 1.          *)
(***************************************************************************)
FLeq(x, y) == ~FGreater(x, y)

\* Validation-failed attempts, over all calls, with attempt number > 1.
RetriedValidationFailures ==
    {i \in AttemptsOfKind("fail") : history[i].attempt > 1}

C13_Step ==
    /\ FLeq(gaming_score, gaming_score')
    /\ kinds' = Append(kinds, "pass") => gaming_score' = gaming_score
    /\ RaisedStep => gaming_score' = gaming_score
    /\ (pc = "loop" /\ attempt = 1) => gaming_score' = gaming_score
    /\ pc # "loop" => gaming_score' = gaming_score

\* The bound on the exact value of the double: k/10 + m * 2^-56 / 10 against
\* 3n/10 (the double nearest 0.3n is no larger than that when n = 1).
C13_NeverExceedsBound ==
    LET n == Cardinality(RetriedValidationFailures)
    IN  \/ gaming_score.k < 3 * n
        \/ gaming_score.k = 3 * n /\ gaming_score.m <= 0

\* The bound on the score as get_summary reports it, in hundredths.
C13_ReportedWithinBound ==
    Round2(gaming_score) <= 30 * Cardinality(RetriedValidationFailures)

\* The claim as amended.
C13_RunningScore == []C13_ReportedWithinBound /\ [][C13_Step]_vars

\* A second call starts with the score the first call left behind, and its
\* first attempt, a validation failure, leaves the score alone.
C13_Witness ==
    /\ calls = 2
    /\ pc \in {"loop", "returned"}
    /\ outcomes = <<"fail">>
    /\ gaming_score = FAdd(F02, F01)
    /\ Cardinality(RetriedValidationFailures) = 1
    /\ Cardinality(AttemptsOfKind("fail")) = 3

(***************************************************************************)
(* C14: the suggestions stored in the record of an attempt that failed     *)
(* validation are generated afresh from that attempt's protocol tag and    *)
(* error list alone (not from earlier attempts, the attempt number or the  *)
(* gaming score); nothing the validation function supplied is kept; and a  *)
(* failing validation result without a tag gets exactly one generic        *)
(* suggestion.                                                             *)
(***************************************************************************)
Elements(seq) == {seq[n] : n \in 1..Len(seq)}

SuppliedTexts == UNION {Elements(given) : given \in SuppliedSuggestions}

C14_SuggestionsFromTagAndErrors ==
    \A i \in AttemptsOfKind("fail") :
        /\ \A j \in AttemptsOfKind("fail") :
              (history[i].protocol = history[j].protocol
                  /\ history[i].errors = history[j].errors)
                 => history[i].suggestions = history[j].suggestions
        /\ Elements(history[i].suggestions) \cap SuppliedTexts = {}
        /\ history[i].protocol = None =>
              history[i].suggestions =
                  <<"Run full validation to identify specific protocol failure">>
        /\ history[i].protocol = "DGTS" =>
              /\ Len(history[i].suggestions) = 5
              /\ history[i].suggestions[1] =
                    "Remove mock data returns - implement real functionality"

\* Two validation failures with the same tag and errors at different attempt
\* numbers and gaming scores, after an untagged validation failure.
C14_Witness ==
    /\ pc = "returned"
    /\ outcomes = <<"fail", "fail", "fail">>
    /\ history[Len(history) - 2].protocol = None
    /\ history[Len(history) - 1].protocol = "ZeroTolerance"
    /\ history[Len(history) - 1].errors = <<E1>>
    /\ result.protocol = "ZeroTolerance"
    /\ result.errors = <<E1>>
    /\ Len(result.suggestions) = 2
    /\ gaming_score = FAdd(F01, F02)

(***************************************************************************)
(* C15: within a failing attempt k > 1, gaming detection runs before the   *)
(* attempt's own record is appended, so the record it compares against is  *)
(* the record of attempt k-1 of the same execute call (a validation        *)
(* failure or an exception record): never the current attempt itself,      *)
(* never a passing record, never a record of an earlier execute call.      *)
(***************************************************************************)
DetectionRanStep == outcomes' = Append(outcomes, "fail") /\ detect_ran'

C15_Step ==
    DetectionRanStep =>
        LET prev_result == Last(history)
            own == Last(history')
            same == own.errors = prev_result.errors
            switched == own.protocol # prev_result.protocol
        IN  /\ attempt > 1
            /\ Len(history) = start_len + attempt - 1
            /\ Len(history) > start_len
            /\ prev_result.attempt = attempt - 1
            /\ own.attempt = attempt
            /\ ~prev_result.passed
            /\ kinds[Len(kinds)] \in {"fail", "raise"}
            /\ Len(history') = Len(history) + 1
            /\ gaming_score' =
                  (LET s1 == IF same THEN FAdd(gaming_score, F02) ELSE gaming_score
                   IN  IF switched THEN FAdd(s1, F01) ELSE s1)
            /\ ("IdenticalErrors" \in emitted') <=> same
            /\ ("ProtocolSwitching" \in emitted') <=> switched

C15_DetectionBeforeRecording == [][C15_Step]_vars

\* Detection in attempt 2 of a second call, against the exception record
\* of that call's attempt 1, which differs from the attempt's own record and
\* from the record the first call left behind.
C15_Witness ==
    /\ calls = 2
    /\ start_len = 2
    /\ detect_ran
    /\ outcomes = <<"raise", "fail">>
    /\ Len(history) = 4
    /\ ~history[2].passed
    /\ history[2].errors = history[4].errors
    /\ history[3].errors # history[4].errors
    /\ history[4].protocol = None
    /\ emitted = {}

(***************************************************************************)
(* C16: with enable_gaming_detection = false no sequence of attempts or    *)
(* execute calls changes the gaming score: it stays at its initial 0.0,    *)
(* get_summary reports gaming_score 0, and the high-gaming-score warning   *)
(* (like every other detection line) is never emitted.                     *)
(***************************************************************************)
C16_DetectionDisabled ==
    ~enable_gaming_detection =>
        /\ gaming_score = F0
        /\ ~detect_ran
        /\ "HighGamingScore" \notin emitted
        /\ emitted = {}
        /\ summary # NoSummary => summary.gaming_score = 0

\* Detection off, two calls of two identical validation failures each, and
\* the summary taken afterwards.
C16_Witness ==
    /\ ~enable_gaming_detection
    /\ calls = 2
    /\ pc = "returned"
    /\ outcomes = <<"fail", "fail">>
    /\ Len(history) = 4
    /\ \A i \in 1..4 : history[i].errors = <<E1>> /\ history[i].protocol = "DGTS"
    /\ summary # NoSummary
    /\ summary.failed = 4
    /\ summary.gaming_score = 0

(***************************************************************************)
(* C17: the statement after the attempt loop ('Should not reach here') is  *)
(* never reached: for every configuration and every outcome sequence       *)
(* execute returns from inside the loop, at a passing attempt or at the    *)
(* final attempt.                                                          *)
(***************************************************************************)
\* The loop is over and execute has not returned: control is at line 193.
AtFallback == pc = "loop" /\ ~LoopContinues(attempt, max_retries)

C17_FallbackNeverReached == ~AtFallback

(***************************************************************************)
(* C18: execute always yields a ValidationResult describing an attempt of  *)
(* that call and never raises to its caller, for every max_retries >= 0    *)
(* and every behaviour of the task and validation functions, on a fresh    *)
(* loop or one holding history of an earlier call: the returned result is  *)
(* a record appended during the current call.                              *)
(***************************************************************************)
C18_AlwaysYieldsOwnRecord ==
    /\ pc # "raised"
    /\ pc = "returned" =>
          /\ Len(history) > start_len
          /\ result = Last(history)
          /\ result.attempt \in 1..max_retries

(***************************************************************************)
(* C19: tool discovery picks at most one of each alternative pair, with a  *)
(* fixed precedence: for every combination of project files the discovered *)
(* tools hold at most one of Vitest/Jest (Vitest when both are package     *)
(* dependencies) and at most one of Playwright/Cypress (Playwright when    *)
(* both config files exist), and project_info never has is_typescript and  *)
(* is_javascript both true.                                                *)
(***************************************************************************)
ToolNames(tools) == {tools[i].name : i \in 1..Len(tools)}

\* How many entries of tools carry one of the names.
CountNamed(tools, names) == Cardinality({i \in 1..Len(tools) : tools[i].name \in names})

HasPlaywrightConfig ==
    FileExists(project, "playwright.config.ts") \/ FileExists(project, "playwright.config.js")

HasCypressConfig ==
    FileExists(project, "cypress.config.ts") \/ FileExists(project, "cypress.config.js")

C19_OneOfEachPair ==
    Len(returned) >= 1 =>
        LET names == ToolNames(discovered_tools)
            first == returned[1].discovered_tools
        IN  /\ ~({"Vitest", "Jest"} \subseteq names)
            /\ ~({"Playwright", "Cypress"} \subseteq names)
            /\ CountNamed(first, {"Vitest", "Jest"}) <= 1
            /\ CountNamed(first, {"Playwright", "Cypress"}) <= 1
            /\ HasPackageDependency(project, "vitest") =>
                  ("Vitest" \in names /\ "Jest" \notin names)
            /\ (HasPackageDependency(project, "jest")
                   /\ ~HasPackageDependency(project, "vitest")) => "Jest" \in names
            /\ HasPlaywrightConfig => ("Playwright" \in names /\ "Cypress" \notin names)
            /\ (HasCypressConfig /\ ~HasPlaywrightConfig) => "Cypress" \in names
            /\ ~(project_info.is_typescript /\ project_info.is_javascript)
            /\ \A n \in 1..Len(returned) :
                  /\ ToolNames(returned[n].discovered_tools) = names
                  /\ ~(returned[n].project_info.is_typescript
                        /\ returned[n].project_info.is_javascript)

\* A TypeScript project with both test dependencies and both E2E configs.
C19_Witness ==
    /\ Len(returned) = 1
    /\ {"tsconfig.json", "package.json", "playwright.config.js", "cypress.config.ts"}
          \subseteq project.files
    /\ {"vitest", "jest"} \subseteq project.dependencies
    /\ project_info.is_typescript
    /\ returned[1].validation_layers.layer2_unit_tests = <<"Vitest">>
    /\ returned[1].validation_layers.layer3_e2e_tests = <<"Playwright">>

(***************************************************************************)
(* C20: discover_all is repeatable: calling it twice on one AutoDiscovery  *)
(* instance over an unchanged project returns the same results as calling  *)
(* it once; discovered_tools and the validation layers hold each           *)
(* discovered tool exactly once, with no duplicates from the earlier call. *)
(***************************************************************************)
NoDuplicates(seq) == \A i, j \in 1..Len(seq) : seq[i] = seq[j] => i = j

C20_Repeatable ==
    /\ \A n \in 1..Len(returned) : returned[n] = returned[1]
    /\ NoDuplicates(discovered_tools)
    /\ \A n \in 1..Len(returned) :
          /\ NoDuplicates(returned[n].discovered_tools)
          /\ NoDuplicates(returned[n].validation_layers.layer1_static_analysis)
          /\ NoDuplicates(returned[n].validation_layers.layer2_unit_tests)
          /\ NoDuplicates(returned[n].validation_layers.layer3_e2e_tests)

====
